---------------------------- MODULE Spec2Model ----------------------------
(***************************************************************************)
(* RustyDBWebSocketClient (src/examples/websocket_client.py) and the       *)
(* programs that drive it: a caller invoking the public methods in any     *)
(* order, the retry loop of example_7_reconnection and the streaming loop  *)
(* of example_8_streaming_results.  The transport and the server are the   *)
(* environment: a connection attempt succeeds or fails, an open link may   *)
(* drop, and the server answers what it received in any order, may push    *)
(* frames of its own or send text that is not JSON.                        *)
(***************************************************************************)
EXTENDS Integers, Sequences, FiniteSets, TLC

\* ------------------------------------------------------------ bounds
MaxCalls == 4
MaxHandles == 2
MaxReq == 2
MaxFrames == 2
MaxRetriesBound == 9

\* --------------------------------------------------- program constants
DefaultMaxReconnectAttempts == 5
Example7MaxReconnectAttempts == 3
Example7MaxRetries == 3
InitialDelay == 1
MaxDelay == 60

VARIABLES
    websocket,          \* self.websocket: 0 is None, h > 0 the h-th handle opened
    authenticated,      \* self.authenticated
    reconnect_count,    \* self.reconnect_count
    auth_token,         \* self.auth_token: "" (None), "valid" or "invalid" to the server
    auto_reconnect,     \* self.auto_reconnect (stored, read nowhere)
    max_reconnect_attempts, \* self.max_reconnect_attempts (stored, read nowhere)
    opened,             \* transport: handles opened and not closed
    nextHandle,         \* transport: handles opened so far
    linkUp,             \* transport: the peer of the current handle is still there
    inbox,              \* transport: frames received on the current handle, not yet read
    srvPending,         \* server: requests received on the current handle, not yet answered
    nextFrame,          \* server: frames sent so far
    nextId,             \* uuid.uuid4(): ids generated so far
    pc,                 \* where the caller is
    inConnect,          \* authenticate() was called by connect()
    curReq,             \* id of the envelope whose reply the caller awaits (0: none or no id)
    results,            \* per generated id, how the call that sent it ended
    calls,              \* API calls made so far
    lastOutcome,        \* how the last call ended: what it returned or raised
    retry_count,        \* example 7
    retry_delay,        \* example 7
    max_retries,        \* example 7
    attempts,           \* example 7: connect() calls made by the loop
    delays,             \* example 7: the delays slept, in order
    total_rows,         \* example 8
    received            \* example 8: the frames its loop was handed, in order

clientVars == <<websocket, authenticated, reconnect_count, auth_token, auto_reconnect,
                max_reconnect_attempts>>
netVars == <<opened, nextHandle, linkUp, inbox, srvPending, nextFrame>>
callVars == <<nextId, pc, inConnect, curReq, results, calls, lastOutcome>>
e7Vars == <<retry_count, retry_delay, max_retries, attempts, delays>>
e8Vars == <<total_rows, received>>
vars == <<clientVars, netVars, callVars, e7Vars, e8Vars>>

\* ------------------------------------------------------------ frames
NoFrame == [type |-> "none", id |-> 0, rows |-> 0, has_more |-> FALSE, seq |-> 0]

Frame(t, i, n, m, s) == [type |-> t, id |-> i, rows |-> n, has_more |-> m, seq |-> s]

\* len(rows) of the batches the server sends.
RowCounts == {3, 5}

Min(a, b) == IF a < b THEN a ELSE b

Unsent == [status |-> "unsent", kind |-> "none", reply |-> NoFrame]

\* --------------------------------------------- send_message, receive_message
\* A faulty variant: send_message does not test for the handle.
SendOutcomeNoGuard == IF ~linkUp THEN "ConnectionClosed" ELSE "ok"

\* send_message: RuntimeError without a handle, else websocket.send, which
\* raises ConnectionClosed on a link that dropped.
SendOutcome ==
    IF websocket = 0 THEN "NotConnected"
    ELSE IF ~linkUp THEN "ConnectionClosed"
    ELSE "ok"

\* receive_message: RuntimeError without a handle; the next queued frame if
\* there is one (None when it is not JSON); else ConnectionClosed on a dropped
\* link, or None once the timeout passes.
RecvOutcome ==
    IF websocket = 0 THEN "NotConnected"
    ELSE IF inbox # <<>>
         THEN (IF Head(inbox).type = "garbage" THEN "malformed" ELSE "frame")
    ELSE IF ~linkUp THEN "ConnectionClosed"
    ELSE "timeout"

\* A faulty variant: asyncio.TimeoutError is not caught and leaves
\* receive_message as an exception.
RecvRaisesOnTimeout == RecvOutcome \in {"NotConnected", "ConnectionClosed", "timeout"}

RecvRaises == RecvOutcome \in {"NotConnected", "ConnectionClosed"}

\* A faulty variant: the newest frame of the queue is handed out, not the
\* oldest.
RecvValueNewest == IF RecvOutcome = "frame" THEN inbox[Len(inbox)] ELSE NoFrame

\* What receive_message returns when it does not raise (NoFrame is None).
RecvValue == IF RecvOutcome = "frame" THEN Head(inbox) ELSE NoFrame

\* response["type"] raises KeyError on a JSON object without a "type" key.
LacksType(f) == f.type = "untyped"

\* websocket.recv() takes the frame off the connection's queue.
InboxAfterRecv == IF inbox # <<>> /\ websocket # 0 THEN Tail(inbox) ELSE inbox

\* A faulty variant: a wait that runs into its timeout leaves the request as
\* it was, still waiting.
EndedStaysWaiting(kind) ==
    [status |-> IF RecvRaises THEN "raised"
                ELSE IF RecvOutcome = "timeout" THEN "waiting" ELSE RecvOutcome,
     kind |-> kind, reply |-> RecvValue]

\* How a call that awaited a reply ended, as kept per id.
Ended(kind) ==
    [status |-> IF RecvRaises THEN "raised" ELSE RecvOutcome,
     kind |-> kind, reply |-> RecvValue]

\* ------------------------------------------------------------ connect
\* websockets.connect(url) raises: connect() re-raises, nothing was assigned.
ConnectFail(failpc) ==
    /\ pc' = failpc
    /\ lastOutcome' = "ConnectFailed"
    /\ UNCHANGED <<clientVars, netVars, nextId, inConnect, curReq, results>>

\* A faulty variant: connect() returns without the handshake also when a
\* token is set.
ConnectOpenSkipsAuth(okpc, authpc) ==
    /\ nextHandle < MaxHandles
    /\ websocket' = nextHandle + 1
    /\ nextHandle' = nextHandle + 1
    /\ opened' = opened \cup {nextHandle + 1}
    /\ linkUp' = TRUE
    /\ inbox' = <<>>
    /\ srvPending' = {}
    /\ reconnect_count' = 0
    /\ pc' = okpc
    /\ lastOutcome' = "ok"
    /\ UNCHANGED <<inConnect, authenticated, auth_token, auto_reconnect,
                   max_reconnect_attempts, nextFrame, nextId, curReq, results>>

\* websockets.connect(url) returns a new connection, assigned to self.websocket;
\* without a token connect() then resets reconnect_count and returns.
ConnectOpen(okpc, authpc) ==
    /\ nextHandle < MaxHandles
    /\ websocket' = nextHandle + 1
    /\ nextHandle' = nextHandle + 1
    /\ opened' = opened \cup {nextHandle + 1}
    /\ linkUp' = TRUE
    /\ inbox' = <<>>
    /\ srvPending' = {}
    /\ IF auth_token = ""
       THEN /\ reconnect_count' = 0
            /\ pc' = okpc
            /\ lastOutcome' = "ok"
            /\ UNCHANGED inConnect
       ELSE /\ pc' = authpc
            /\ inConnect' = TRUE
            /\ lastOutcome' = "pending"
            /\ UNCHANGED reconnect_count
    /\ UNCHANGED <<authenticated, auth_token, auto_reconnect, max_reconnect_attempts, nextFrame,
                   nextId, curReq, results>>

CallConnect ==
    /\ pc = "idle"
    /\ calls < MaxCalls
    /\ auth_token # "" => nextId < MaxReq
    /\ calls' = calls + 1
    /\ \/ ConnectFail("idle")
       \/ ConnectOpen("idle", "auth_send")
    /\ UNCHANGED <<e7Vars, e8Vars>>

\* --------------------------------------------------------- authenticate
\* authenticate(): the auth envelope, with a fresh uuid4 id, goes to send_message.
AuthSend ==
    /\ pc = "auth_send"
    /\ nextId' = nextId + 1
    /\ IF SendOutcome = "ok"
       THEN /\ srvPending' = srvPending \cup {[id |-> nextId + 1, type |-> "auth"]}
            /\ results' = [results EXCEPT ![nextId + 1] =
                              [status |-> "waiting", kind |-> "auth", reply |-> NoFrame]]
            /\ curReq' = nextId + 1
            /\ pc' = "auth_recv"
            /\ UNCHANGED <<lastOutcome, inConnect>>
       ELSE /\ results' = [results EXCEPT ![nextId + 1] =
                              [status |-> "raised", kind |-> "auth", reply |-> NoFrame]]
            /\ lastOutcome' = SendOutcome
            /\ pc' = "idle"
            /\ inConnect' = FALSE
            /\ UNCHANGED <<srvPending, curReq>>
    /\ UNCHANGED <<clientVars, opened, nextHandle, linkUp, inbox, nextFrame,
                   calls, e7Vars, e8Vars>>

\* A faulty variant: any reply that is not None counts as success.
AuthFlagAnyReply(reply) ==
    IF reply.type # "none" THEN TRUE ELSE authenticated

\* self.authenticated after the reply: set on auth_success, cleared on
\* auth_error, left alone on None or any other frame.
AuthFlagAfter(reply) ==
    IF reply.type = "auth_success" THEN TRUE
    ELSE IF reply.type = "auth_error" THEN FALSE
    ELSE authenticated

\* The reply is awaited with receive_message(); when authenticate() returns into
\* connect(), connect() resets reconnect_count and returns; an exception
\* passes through connect()'s except clause and is raised again.
AuthRecv ==
    /\ pc = "auth_recv"
    /\ inbox' = InboxAfterRecv
    /\ results' = [results EXCEPT ![curReq] = Ended("auth")]
    /\ curReq' = 0
    /\ pc' = "idle"
    /\ inConnect' = FALSE
    /\ IF RecvRaises
       THEN /\ lastOutcome' = RecvOutcome
            /\ UNCHANGED <<authenticated, reconnect_count>>
       ELSE IF LacksType(RecvValue)
       THEN /\ lastOutcome' = "KeyError"
            /\ UNCHANGED <<authenticated, reconnect_count>>
       ELSE /\ authenticated' = AuthFlagAfter(RecvValue)
            /\ reconnect_count' = IF inConnect THEN 0 ELSE reconnect_count
            /\ lastOutcome' = IF inConnect THEN "ok"
                              ELSE IF RecvValue.type = "auth_success" THEN "True"
                              ELSE "False"
    /\ UNCHANGED <<websocket, auth_token, auto_reconnect, max_reconnect_attempts, opened, nextHandle,
                   linkUp, srvPending, nextFrame, nextId, calls,
                   e7Vars, e8Vars>>

\* authenticate() called by the caller: False at once without a token.
CallAuthenticate ==
    /\ pc = "idle"
    /\ calls < MaxCalls
    /\ calls' = calls + 1
    /\ IF auth_token = ""
       THEN /\ lastOutcome' = "False"
            /\ UNCHANGED <<pc, inConnect>>
       ELSE /\ nextId < MaxReq
            /\ pc' = "auth_send"
            /\ inConnect' = FALSE
            /\ lastOutcome' = "pending"
    /\ UNCHANGED <<clientVars, netVars, nextId, curReq, results,
                   e7Vars, e8Vars>>

\* -------------------------------------------------------- execute_query
\* execute_query(): the query envelope, with a fresh uuid4 id, goes to
\* send_message; an exception of send_message ends the call.
CallQuery ==
    /\ pc = "idle"
    /\ calls < MaxCalls
    /\ nextId < MaxReq
    /\ calls' = calls + 1
    /\ nextId' = nextId + 1
    /\ IF SendOutcome = "ok"
       THEN /\ srvPending' = srvPending \cup {[id |-> nextId + 1, type |-> "query"]}
            /\ results' = [results EXCEPT ![nextId + 1] =
                              [status |-> "waiting", kind |-> "query", reply |-> NoFrame]]
            /\ curReq' = nextId + 1
            /\ pc' = "query_recv"
            /\ lastOutcome' = "pending"
       ELSE /\ results' = [results EXCEPT ![nextId + 1] =
                              [status |-> "raised", kind |-> "query", reply |-> NoFrame]]
            /\ lastOutcome' = SendOutcome
            /\ UNCHANGED <<srvPending, curReq, pc>>
    /\ UNCHANGED <<clientVars, opened, nextHandle, linkUp, inbox, nextFrame,
                   inConnect, e7Vars, e8Vars>>

\* A faulty variant: a timeout also gives up the connection handle and with
\* it the requests the server has not answered yet.
QueryRecvDropsOnTimeout ==
    /\ pc = "query_recv"
    /\ inbox' = InboxAfterRecv
    /\ results' = [results EXCEPT ![curReq] = Ended("query")]
    /\ curReq' = 0
    /\ pc' = "idle"
    /\ lastOutcome' = IF RecvRaises THEN RecvOutcome
                      ELSE IF RecvOutcome = "frame" THEN "frame" ELSE "None"
    /\ websocket' = IF RecvOutcome = "timeout" THEN 0 ELSE websocket
    /\ srvPending' = IF RecvOutcome = "timeout" THEN {} ELSE srvPending
    /\ UNCHANGED <<authenticated, reconnect_count, auth_token, auto_reconnect,
                   max_reconnect_attempts, opened, nextHandle, linkUp, nextFrame,
                   nextId, inConnect, calls, e7Vars, e8Vars>>

\* return await self.receive_message(): whatever receive_message returns is
\* the result of the query.
QueryRecv ==
    /\ pc = "query_recv"
    /\ inbox' = InboxAfterRecv
    /\ results' = [results EXCEPT ![curReq] = Ended("query")]
    /\ curReq' = 0
    /\ pc' = "idle"
    /\ lastOutcome' = IF RecvRaises THEN RecvOutcome
                      ELSE IF RecvOutcome = "frame" THEN "frame" ELSE "None"
    /\ UNCHANGED <<clientVars, opened, nextHandle, linkUp, srvPending, nextFrame,
                   nextId, inConnect, calls, e7Vars, e8Vars>>

\* ----------------------------------------------------------------- ping
\* ping(): the ping envelope has no "id" key.
CallPing ==
    /\ pc = "idle"
    /\ calls < MaxCalls
    /\ calls' = calls + 1
    /\ IF SendOutcome = "ok"
       THEN /\ srvPending' = srvPending \cup {[id |-> 0, type |-> "ping"]}
            /\ pc' = "ping_recv"
            /\ lastOutcome' = "pending"
       ELSE /\ lastOutcome' = SendOutcome
            /\ UNCHANGED <<srvPending, pc>>
    /\ UNCHANGED <<clientVars, opened, nextHandle, linkUp, inbox, nextFrame,
                   nextId, inConnect, curReq, results, e7Vars, e8Vars>>

\* A faulty variant: any frame read counts as the pong.
PingResultAnyFrame == IF RecvValue # NoFrame THEN "True" ELSE "False"

\* return response is not None and response["type"] == "pong"
PingResult == IF RecvValue.type = "pong" THEN "True" ELSE "False"

PingRecv ==
    /\ pc = "ping_recv"
    /\ inbox' = InboxAfterRecv
    /\ pc' = "idle"
    /\ lastOutcome' = IF RecvRaises THEN RecvOutcome
                      ELSE IF LacksType(RecvValue) THEN "KeyError"
                      ELSE PingResult
    /\ UNCHANGED <<clientVars, opened, nextHandle, linkUp, srvPending, nextFrame,
                   nextId, inConnect, curReq, results, calls,
                   e7Vars, e8Vars>>

\* ---------------------------------------------------------------- close
\* A faulty variant: authenticated is not cleared.
CloseKeepsFlag(nextpc) ==
    /\ pc' = nextpc
    /\ lastOutcome' = "closed"
    /\ IF websocket # 0
       THEN /\ opened' = opened \ {websocket}
            /\ websocket' = 0
            /\ linkUp' = FALSE
            /\ inbox' = <<>>
            /\ srvPending' = {}
       ELSE UNCHANGED <<opened, websocket, linkUp, inbox, srvPending>>
    /\ UNCHANGED <<authenticated, reconnect_count, auth_token, auto_reconnect, max_reconnect_attempts,
                   nextHandle, nextFrame, nextId, inConnect, curReq, results>>

\* close(): with a handle, closes it and clears websocket and authenticated;
\* without one, does nothing.
Close(nextpc) ==
    /\ pc' = nextpc
    /\ lastOutcome' = "closed"
    /\ IF websocket # 0
       THEN /\ opened' = opened \ {websocket}
            /\ websocket' = 0
            /\ authenticated' = FALSE
            /\ linkUp' = FALSE
            /\ inbox' = <<>>
            /\ srvPending' = {}
       ELSE UNCHANGED <<opened, websocket, authenticated, linkUp, inbox, srvPending>>
    /\ UNCHANGED <<reconnect_count, auth_token, auto_reconnect, max_reconnect_attempts, nextHandle,
                   nextFrame, nextId, inConnect, curReq, results>>

CallClose ==
    /\ pc = "idle"
    /\ calls < MaxCalls
    /\ calls' = calls + 1
    /\ Close("idle")
    /\ UNCHANGED <<e7Vars, e8Vars>>

\* ---------------------------------------------------- transport and server
\* The reply to a request: auth is answered by the token's validity, a query
\* by an error or by a batch of rows (has_more says more batches follow), a
\* ping by a pong; a reply echoes the id of its request.
Replies(req) ==
    IF req.type = "auth"
    THEN {Frame(IF auth_token = "valid" THEN "auth_success" ELSE "auth_error",
                req.id, 0, FALSE, nextFrame + 1)}
    ELSE IF req.type = "ping"
    THEN {Frame("pong", req.id, 0, FALSE, nextFrame + 1)}
    ELSE {Frame("error", req.id, 0, FALSE, nextFrame + 1)}
         \cup {Frame("data", req.id, n, m, nextFrame + 1) : n \in RowCounts, m \in BOOLEAN}

ServerReply ==
    /\ websocket # 0
    /\ linkUp
    /\ nextFrame < MaxFrames
    /\ \E req \in srvPending : \E f \in Replies(req) :
          /\ inbox' = Append(inbox, f)
          /\ srvPending' = IF f.has_more THEN srvPending ELSE srvPending \ {req}
    /\ nextFrame' = nextFrame + 1
    /\ UNCHANGED <<clientVars, opened, nextHandle, linkUp, callVars, e7Vars, e8Vars>>

\* A frame nobody asked for: a push of a type the client does not know, a
\* JSON object without a "type" key, or text that is not JSON.
ServerUnsolicited ==
    /\ websocket # 0
    /\ linkUp
    /\ nextFrame < MaxFrames
    /\ \E t \in {"notice", "untyped", "garbage"} :
          inbox' = Append(inbox, Frame(t, 0, 0, FALSE, nextFrame + 1))
    /\ nextFrame' = nextFrame + 1
    /\ UNCHANGED <<clientVars, opened, nextHandle, linkUp, srvPending, callVars,
                   e7Vars, e8Vars>>

\* The peer goes away: what it had not answered is never answered.
LinkDrop ==
    /\ websocket # 0
    /\ linkUp
    /\ linkUp' = FALSE
    /\ srvPending' = {}
    /\ UNCHANGED <<clientVars, opened, nextHandle, inbox, nextFrame, callVars,
                   e7Vars, e8Vars>>

\* ------------------------------------------------------- the free caller
Tokens == {"", "valid", "invalid"}

\* __init__: no handle, not authenticated, reconnect_count 0.
InitClient ==
    /\ websocket = 0
    /\ authenticated = FALSE
    /\ reconnect_count = 0
    /\ opened = {}
    /\ nextHandle = 0
    /\ linkUp = FALSE
    /\ inbox = <<>>
    /\ srvPending = {}
    /\ nextFrame = 0
    /\ nextId = 0
    /\ inConnect = FALSE
    /\ curReq = 0
    /\ results = [i \in 1..MaxReq |-> Unsent]
    /\ calls = 0
    /\ lastOutcome = "ok"

InitExamplesIdle ==
    /\ retry_count = 0
    /\ retry_delay = InitialDelay
    /\ max_retries = Example7MaxRetries
    /\ attempts = 0
    /\ delays = <<>>
    /\ total_rows = 0
    /\ received = <<>>

Init ==
    /\ InitClient
    /\ InitExamplesIdle
    /\ auth_token \in Tokens
    /\ auto_reconnect = TRUE
    /\ max_reconnect_attempts = DefaultMaxReconnectAttempts
    /\ pc = "idle"

Next ==
    \/ CallConnect
    \/ AuthSend
    \/ AuthRecv
    \/ CallAuthenticate
    \/ CallQuery
    \/ QueryRecv
    \/ CallPing
    \/ PingRecv
    \/ CallClose
    \/ ServerReply
    \/ ServerUnsolicited
    \/ LinkDrop

Spec == Init /\ [][Next]_vars

\* ------------------------------------------------ example_7_reconnection
\* A faulty variant: the cap is missing.
BackoffNoCap(d) == d * 2

\* retry_delay = min(retry_delay * 2, 60.0)
Backoff(d) == Min(d * 2, MaxDelay)

\* A faulty variant: the test is off by one.
GivesUpLate(n) == n > max_retries

\* if retry_count >= max_retries: break (retry_count already counted up)
GivesUp(n) == n >= max_retries

\* One turn of "while retry_count < max_retries": client.connect(); when it
\* raises, the except clause counts the failure and either gives up (break)
\* or starts asyncio.sleep(retry_delay).
E7Connect ==
    /\ pc = "e7_loop"
    /\ retry_count < max_retries
    /\ attempts' = attempts + 1
    /\ \/ /\ ConnectOpen("e7_work", "e7_work")
          /\ UNCHANGED <<retry_count, delays>>
       \/ /\ ConnectFail(IF GivesUp(retry_count + 1) THEN "e7_close" ELSE "e7_sleep")
          /\ retry_count' = retry_count + 1
          /\ delays' = IF GivesUp(retry_count + 1) THEN delays
                       ELSE Append(delays, retry_delay)
    /\ UNCHANGED <<calls, retry_delay, max_retries, e8Vars>>

\* The loop condition is false: the loop is left without a connect.
E7WhileExit ==
    /\ pc = "e7_loop"
    /\ ~(retry_count < max_retries)
    /\ pc' = "e7_close"
    /\ UNCHANGED <<clientVars, netVars, nextId, inConnect, curReq, results, calls,
                   lastOutcome, e7Vars, e8Vars>>

\* The sleep is over: the delay doubles, capped, and the loop goes round.
E7Sleep ==
    /\ pc = "e7_sleep"
    /\ retry_delay' = Backoff(retry_delay)
    /\ pc' = "e7_loop"
    /\ UNCHANGED <<clientVars, netVars, nextId, inConnect, curReq, results, calls,
                   lastOutcome, retry_count, max_retries, attempts, delays, e8Vars>>

\* A faulty variant: the break is missing, the loop goes round after a success.
E7WorkNoBreak ==
    /\ pc = "e7_work"
    /\ pc' = "e7_loop"
    /\ UNCHANGED <<clientVars, netVars, nextId, inConnect, curReq, results, calls,
                   lastOutcome, e7Vars, e8Vars>>

\* Connected: asyncio.sleep(1), then break.
E7Work ==
    /\ pc = "e7_work"
    /\ pc' = "e7_close"
    /\ UNCHANGED <<clientVars, netVars, nextId, inConnect, curReq, results, calls,
                   lastOutcome, e7Vars, e8Vars>>

\* await client.close() after the loop.
E7Close ==
    /\ pc = "e7_close"
    /\ Close("e7_done")
    /\ UNCHANGED <<calls, e7Vars, e8Vars>>

InitRetry ==
    /\ InitClient
    /\ auth_token = ""
    /\ auto_reconnect = TRUE
    /\ max_reconnect_attempts = Example7MaxReconnectAttempts
    /\ retry_count = 0
    /\ retry_delay = InitialDelay
    /\ max_retries \in 0..MaxRetriesBound
    /\ attempts = 0
    /\ delays = <<>>
    /\ total_rows = 0
    /\ received = <<>>
    /\ pc = "e7_loop"

NextRetry ==
    \/ E7Connect
    \/ E7WhileExit
    \/ E7Sleep
    \/ E7Work
    \/ E7Close
    \/ ServerUnsolicited
    \/ LinkDrop

SpecRetry == InitRetry /\ [][NextRetry]_vars

\* The coroutine of the loop is always resumed: connect() returns or raises,
\* a sleep ends after its delay, close() returns.
SpecRetryFair ==
    /\ SpecRetry
    /\ WF_vars(E7Connect) /\ WF_vars(E7WhileExit) /\ WF_vars(E7Sleep)
    /\ WF_vars(E7Work) /\ WF_vars(E7Close)

\* -------------------------------------------- example_8_streaming_results
\* async with RustyDBWebSocketClient() as client: __aenter__ calls connect();
\* when it raises, the block and __aexit__ are skipped.
E8Enter ==
    /\ pc = "e8_enter"
    /\ \/ ConnectOpen("e8_send", "e8_send")
       \/ ConnectFail("e8_raised")
    /\ UNCHANGED <<calls, e7Vars, e8Vars>>

\* client.send_message(query envelope with a uuid4 id); total_rows = 0.
E8Send ==
    /\ pc = "e8_send"
    /\ nextId' = nextId + 1
    /\ total_rows' = 0
    /\ IF SendOutcome = "ok"
       THEN /\ srvPending' = srvPending \cup {[id |-> nextId + 1, type |-> "query"]}
            /\ pc' = "e8_recv"
            /\ lastOutcome' = "pending"
       ELSE /\ pc' = "e8_exit"
            /\ lastOutcome' = SendOutcome
            /\ UNCHANGED srvPending
    /\ UNCHANGED <<clientVars, opened, nextHandle, linkUp, inbox, nextFrame,
                   inConnect, curReq, results, calls, e7Vars, received>>

\* A faulty variant: the rows of the last batch are not counted.
TotalSkipsLast(f) ==
    IF f.type = "data" /\ f.has_more THEN total_rows + f.rows ELSE total_rows

\* total_rows += len(rows), for a data frame; other frames add nothing.
TotalAfter(f) == IF f.type = "data" THEN total_rows + f.rows ELSE total_rows

\* A faulty variant: an error frame does not end the loop.
LoopsOnAfterError(f) ==
    /\ f.type # "none"
    /\ f.type = "data" => f.has_more

\* Whether the loop goes round after this response: not after None, not after
\* a data frame without has_more, not after an error frame.
LoopsOn(f) ==
    /\ f.type # "none"
    /\ f.type = "data" => f.has_more
    /\ f.type # "error"

\* One turn of "while True": receive_message(timeout=10.0) and the branches.
E8Recv ==
    /\ pc = "e8_recv"
    /\ inbox' = InboxAfterRecv
    /\ IF RecvRaises
       THEN /\ pc' = "e8_exit"
            /\ lastOutcome' = RecvOutcome
            /\ UNCHANGED <<total_rows, received>>
       ELSE IF LacksType(RecvValue)
       THEN /\ pc' = "e8_exit"
            /\ lastOutcome' = "KeyError"
            /\ received' = Append(received, RecvValue)
            /\ UNCHANGED total_rows
       ELSE /\ total_rows' = TotalAfter(RecvValue)
            /\ received' = IF RecvOutcome = "frame" THEN Append(received, RecvValue)
                           ELSE received
            /\ pc' = IF LoopsOn(RecvValue) THEN "e8_recv" ELSE "e8_exit"
            /\ lastOutcome' = IF LoopsOn(RecvValue) THEN "pending"
                              ELSE IF RecvValue.type = "none" THEN "None"
                              ELSE RecvValue.type
    /\ UNCHANGED <<clientVars, opened, nextHandle, linkUp, srvPending, nextFrame,
                   nextId, inConnect, curReq, results, calls, e7Vars>>

\* __aexit__: client.close().
E8Exit ==
    /\ pc = "e8_exit"
    /\ Close("e8_done")
    /\ UNCHANGED <<calls, e7Vars, e8Vars>>

InitStream ==
    /\ InitClient
    /\ InitExamplesIdle
    /\ auth_token = ""
    /\ auto_reconnect = TRUE
    /\ max_reconnect_attempts = DefaultMaxReconnectAttempts
    /\ pc = "e8_enter"

NextStream ==
    \/ E8Enter
    \/ E8Send
    \/ E8Recv
    \/ E8Exit
    \/ ServerReply
    \/ ServerUnsolicited
    \/ LinkDrop

SpecStream == InitStream /\ [][NextStream]_vars

\* ------------------------------- a caller of send_message and receive_message
\* send_message(query envelope with a uuid4 id) called by the caller, as
\* example_8_streaming_results does.
CallSend ==
    /\ pc = "idle"
    /\ calls < MaxCalls
    /\ nextId < MaxReq
    /\ calls' = calls + 1
    /\ nextId' = nextId + 1
    /\ lastOutcome' = SendOutcome
    /\ srvPending' = IF SendOutcome = "ok"
                     THEN srvPending \cup {[id |-> nextId + 1, type |-> "query"]}
                     ELSE srvPending
    /\ UNCHANGED <<clientVars, opened, nextHandle, linkUp, inbox, nextFrame,
                   pc, inConnect, curReq, results, e7Vars, e8Vars>>

\* receive_message() called by the caller.
CallReceive ==
    /\ pc = "idle"
    /\ calls < MaxCalls
    /\ calls' = calls + 1
    /\ inbox' = InboxAfterRecv
    /\ lastOutcome' = IF RecvRaises THEN RecvOutcome
                      ELSE IF RecvOutcome = "frame" THEN "frame" ELSE "None"
    /\ UNCHANGED <<clientVars, opened, nextHandle, linkUp, srvPending, nextFrame,
                   nextId, pc, inConnect, curReq, results, e7Vars, e8Vars>>

\* A client without a token.
InitRaw ==
    /\ InitClient
    /\ InitExamplesIdle
    /\ auth_token = ""
    /\ auto_reconnect = TRUE
    /\ max_reconnect_attempts = DefaultMaxReconnectAttempts
    /\ pc = "idle"

NextRaw ==
    \/ CallConnect
    \/ CallSend
    \/ CallReceive
    \/ CallQuery
    \/ QueryRecv
    \/ CallPing
    \/ PingRecv
    \/ CallClose
    \/ ServerReply
    \/ LinkDrop

SpecRaw == InitRaw /\ [][NextRaw]_vars

\* ======================================================================
\* Properties
\* ======================================================================
Ids == 1..MaxReq

\* The call that sent id i was handed a frame.
GotFrame(i) == results[i].status = "frame"

\* C1: every query that is handed a reply is handed the reply that carries
\* its own id, whatever the order in which frames arrive.
C1_ReplyCarriesRequestId ==
    \A i \in Ids :
        (results[i].kind = "query" /\ GotFrame(i)) => results[i].reply.id = i

\* C2: after a query ended in a timeout, a later query that is handed a query
\* reply (data or error) is handed its own, also when the reply to the
\* timed-out query arrives late.
C2_LaterRequestGetsOwnReply ==
    \A i \in Ids : \A j \in Ids :
        (/\ i < j
         /\ results[i].kind = "query" /\ results[i].status = "timeout"
         /\ results[j].kind = "query" /\ GotFrame(j)
         /\ results[j].reply.type \in {"data", "error"})
        => results[j].reply.id = j

\* The handshake is about to be handed auth_error.
AuthErrorArrives ==
    pc = "auth_recv" /\ RecvOutcome = "frame" /\ RecvValue.type = "auth_error"

\* C3 as stated: a handshake that receives auth_error leaves the session
\* Failed, that is without a connection it could go on using.
C3_AuthErrorLeavesFailed ==
    [][(AuthErrorArrives /\ pc' = "idle") => websocket' = 0]_vars

\* C3 as amended: a handshake that receives auth_error ends with
\* authenticated false and the same connection still held and open, connect()
\* returning normally; and a transport is only ever opened by a connect()
\* call of the caller, never by the client on its own.
C3_AuthErrorKeepsConnection ==
    /\ [][(AuthErrorArrives /\ pc' = "idle") =>
            /\ authenticated' = FALSE
            /\ websocket' = websocket
            /\ websocket' \in opened'
            /\ nextHandle' = nextHandle
            /\ lastOutcome' = (IF inConnect THEN "ok" ELSE "False")]_vars
    /\ [][nextHandle' # nextHandle => (pc = "idle" /\ calls' = calls + 1)]_vars

C3_Witness ==
    /\ pc = "idle"
    /\ websocket # 0
    /\ websocket \in opened
    /\ ~authenticated
    /\ lastOutcome = "ok"
    /\ \E i \in Ids : results[i].kind = "auth" /\ results[i].reply.type = "auth_error"

C5_BackoffSequence ==
    /\ \A n \in 1..Len(delays) :
          /\ delays[n] = Min(InitialDelay * 2^(n - 1), MaxDelay)
          /\ delays[n] <= MaxDelay
    /\ pc = "e7_sleep" => (Len(delays) = retry_count /\ delays[retry_count] = retry_delay)

C5_Witness ==
    /\ Len(delays) >= 8
    /\ delays[1] = 1 /\ delays[2] = 2 /\ delays[3] = 4 /\ delays[6] = 32
    /\ delays[7] = 60 /\ delays[8] = 60

\* C6 as stated: right after a successful connect the attempt counter is 0
\* and the backoff delay is InitialDelay again.
C6_DelayResetAfterSuccess ==
    pc = "e7_work" => (reconnect_count = 0 /\ retry_delay = InitialDelay)

\* C6 as amended: right after a successful connect reconnect_count is 0; the
\* backoff delay is not reset but stays min(InitialDelay * 2^k, MaxDelay)
\* after k failures, and the loop ends at this first success: no further
\* attempt and no wait follows it.
C6_SuccessEndsLoop ==
    /\ pc = "e7_work" => (reconnect_count = 0 /\ websocket # 0 /\ lastOutcome = "ok")
    /\ nextHandle > 0 =>
          /\ pc \in {"e7_work", "e7_close", "e7_done"}
          /\ nextHandle = 1
          /\ attempts = retry_count + 1
          /\ Len(delays) = retry_count
          /\ retry_delay = Min(InitialDelay * 2^retry_count, MaxDelay)

C6_Witness ==
    /\ pc = "e7_work"
    /\ retry_count = 2
    /\ retry_delay = 4
    /\ reconnect_count = 0
    /\ websocket # 0

\* The rows of the data frames of a sequence of frames, summed.
RECURSIVE SumRows(_)
SumRows(fs) ==
    IF fs = <<>> THEN 0
    ELSE (IF Head(fs).type = "data" THEN Head(fs).rows ELSE 0) + SumRows(Tail(fs))

FinalBatch(f) == f.type = "data" /\ ~f.has_more

\* C7: in the streaming loop total_rows is the sum of the row counts of the
\* data batches received; the batch with has_more = false is the last frame
\* the loop takes, and with it the loop has ended; no frame is handed to the
\* loop twice.
C7_StreamTotals ==
    /\ total_rows = SumRows(received)
    /\ \A k \in 1..(Len(received) - 1) : ~FinalBatch(received[k])
    /\ (received # <<>> /\ FinalBatch(received[Len(received)])) => pc \in {"e8_exit", "e8_done"}
    /\ \A a \in 1..Len(received) : \A b \in 1..Len(received) :
          a # b => received[a].seq # received[b].seq

C7_Witness ==
    /\ pc = "e8_done"
    /\ Len(received) = 2
    /\ received[1].type = "data" /\ received[1].rows = 5 /\ received[1].has_more
    /\ received[2].type = "data" /\ received[2].rows = 3 /\ ~received[2].has_more
    /\ total_rows = 8

\* C8: a close() call returns normally whatever the state it is made in, and
\* leaves websocket None, authenticated false and the handle it held closed;
\* made on a session without a handle (never connected, or closed before) it
\* changes nothing.
C8_CloseIdempotent ==
    /\ [](lastOutcome = "closed" => (websocket = 0 /\ ~authenticated))
    /\ [][(lastOutcome' = "closed" /\ calls' = calls + 1) =>
            /\ websocket' = 0
            /\ authenticated' = FALSE
            /\ websocket \notin opened'
            /\ pc' = "idle"
            /\ (websocket = 0 => UNCHANGED <<clientVars, netVars, nextId, results>>)]_vars

C8_Witness ==
    /\ lastOutcome = "closed"
    /\ pc = "idle"
    /\ websocket = 0
    /\ nextHandle = 1
    /\ opened = {}
    /\ ~authenticated
    /\ \E i \in Ids : results[i].kind = "auth" /\ results[i].reply.type = "auth_success"

\* C10: while the session holds a connection, connect() opens no transport.
C10_ConnectOnlyWhenDisconnected ==
    [][websocket # 0 => (nextHandle' = nextHandle /\ websocket' \in {websocket, 0})]_vars

\* An auth handshake was handed auth_success.
AuthSucceeded ==
    \E i \in Ids : results[i].kind = "auth" /\ results[i].reply.type = "auth_success"

\* C11 as stated: a session constructed with a credential has a query under
\* way only after its handshake received auth_success.
C11_QueriesOnlyWhenAuthenticated ==
    (auth_token # "" /\ pc = "query_recv") => authenticated

\* C11 as amended: authenticated is true only after a handshake was handed
\* auth_success, and with a credential every connect starts a handshake; but
\* connect() returns and queries are sent whatever the handshake's outcome.
\* Without a credential connect() returns as soon as the transport is open and
\* no auth envelope is ever sent.
C11_AuthFlagOnlyAfterSuccess ==
    /\ [](authenticated => AuthSucceeded)
    /\ [](auth_token = "" =>
            /\ ~authenticated
            /\ \A i \in Ids : results[i].kind # "auth"
            /\ \A req \in srvPending : req.type # "auth")
    /\ [][nextHandle' # nextHandle =>
            IF auth_token = ""
            THEN pc' = "idle" /\ lastOutcome' = "ok" /\ nextId' = nextId
            ELSE pc' = "auth_send" /\ inConnect']_vars

C11_Witness ==
    /\ auth_token = "invalid"
    /\ pc = "query_recv"
    /\ ~authenticated
    /\ \E i \in Ids : results[i].kind = "auth" /\ results[i].reply.type = "auth_error"
    /\ \E req \in srvPending : req.type = "query"

\* The handshake's wait for a reply runs out: the connection is up and no
\* frame came within the timeout.
AuthTimesOut ==
    /\ pc = "auth_recv" /\ pc' = "idle"
    /\ websocket # 0 /\ linkUp /\ inbox = <<>>

\* C12 as stated: a handshake that gets no reply within the timeout ends in
\* an exception raised to the caller, not in a normal return.
C12_AuthTimeoutRaises ==
    [][AuthTimesOut => lastOutcome' \notin {"ok", "True", "False"}]_vars

\* C12 as amended: a handshake that gets no reply within the timeout makes
\* authenticate() return False and connect() return normally; the flag, the
\* connection handle and the open transports are as before, no new transport
\* is opened and reconnect_count is as connect() leaves it.
C12_AuthTimeoutReturnsFalse ==
    [][AuthTimesOut =>
          /\ lastOutcome' = (IF inConnect THEN "ok" ELSE "False")
          /\ results'[curReq].status = "timeout"
          /\ authenticated' = authenticated
          /\ websocket' = websocket /\ websocket' \in opened'
          /\ opened' = opened /\ nextHandle' = nextHandle /\ linkUp'
          /\ reconnect_count' = 0]_vars

C12_Witness ==
    /\ pc = "idle" /\ lastOutcome = "ok"
    /\ websocket # 0 /\ linkUp /\ ~authenticated
    /\ \E i \in Ids : results[i].kind = "auth" /\ results[i].status = "timeout"

\* ping()'s wait ends without a pong: nothing within the timeout, a frame that
\* is not JSON, or a frame of another type.
PingMisses ==
    /\ pc = "ping_recv" /\ pc' = "idle"
    /\ ~RecvRaises /\ ~LacksType(RecvValue) /\ RecvValue.type # "pong"

\* ping()'s wait ends with the pong.
PingHits ==
    /\ pc = "ping_recv" /\ pc' = "idle"
    /\ ~RecvRaises /\ RecvValue.type = "pong"

\* C13 as stated: a ping that gets no pong is counted as a miss and takes the
\* session out of its connected state towards a reconnect.
C13_MissedPongStartsReconnect ==
    [][PingMisses =>
          \/ reconnect_count' # reconnect_count
          \/ websocket' # websocket
          \/ opened' # opened]_vars

\* C13 as amended: ping() returns False when its wait ends without a pong and
\* True when it ends with the pong; in both cases the client's fields, the
\* connection handle and the open transports are unchanged: no miss is
\* counted and no reconnect starts.
C13_PingOnlyReports ==
    [][/\ PingMisses => lastOutcome' = "False"
       /\ PingHits => lastOutcome' = "True"
       /\ (PingMisses \/ PingHits) =>
             /\ UNCHANGED clientVars
             /\ opened' = opened /\ nextHandle' = nextHandle
             /\ linkUp' = linkUp]_vars

C13_Witness ==
    /\ pc = "idle" /\ lastOutcome = "False" /\ calls = 2
    /\ auth_token = "" /\ websocket # 0 /\ websocket \in opened /\ linkUp
    /\ [id |-> 0, type |-> "ping"] \in srvPending

\* C14: with automatic reconnection enabled a caller observes a connection
\* error only after the reconnect attempts are used up.  Every attempt to open
\* a transport is made inside a connect() call of the caller, so fewer than
\* max_reconnect_attempts calls means attempts remain.
C14_ErrorsOnlyAfterExhaustion ==
    (auto_reconnect /\ lastOutcome \in {"ConnectFailed", "ConnectionClosed"})
        => calls >= max_reconnect_attempts

\* C15: every request envelope sent for a reply (auth, query, ping) carries a
\* non-empty id (0 stands for an envelope without an id), and every frame a
\* call accepted as its reply carries that call's id.
C15_RequestsCarryIdRepliesEchoIt ==
    /\ \A req \in srvPending : req.id # 0
    /\ \A i \in Ids : GotFrame(i) => results[i].reply.id = i

\* C16: in every reachable state the session owns at most one open
\* connection, the one its handle refers to; no earlier connection stays
\* open once a new one is installed.
C16_AtMostOneOpenHandle ==
    /\ Cardinality(opened) <= 1
    /\ websocket # 0 => opened = {websocket}

\* The call that sent id i is over: it was handed a frame or None.
Completed(i) == results[i].status \in {"frame", "timeout", "malformed"}

\* C17: a request is completed at most once.  Once the call that sent id i is
\* over, a further frame carrying id i (a duplicate reply, or the reply that
\* arrives after the timeout) completes no call.
C17_CompletedAtMostOnce ==
    \A i \in Ids : \A j \in Ids :
        (i # j /\ Completed(i) /\ GotFrame(j)) => results[j].reply.id # i

\* The request with id i was sent and its call still awaits the reply.
Waiting(i) == results[i].status = "waiting"

QueryTimesOut ==
    /\ pc = "query_recv" /\ pc' = "idle"
    /\ websocket # 0 /\ linkUp /\ inbox = <<>>

StreamEnded == pc \in {"e8_exit", "e8_done"}

\* C20 as stated: the streaming loop ends exactly on the first data frame
\* with has_more = false or on an error frame that carries the query's id.
\* (An end by an exception is left aside.)
C20_EndsOnlyOnFinalOrError ==
    (pc = "e8_exit" /\ lastOutcome \notin {"ConnectionClosed", "KeyError"}) =>
        /\ received # <<>>
        /\ \/ FinalBatch(received[Len(received)])
           \/ /\ received[Len(received)].type = "error"
              /\ received[Len(received)].id = nextId

\* C20 as amended: the loop goes round only while it has taken neither a
\* final batch nor an error frame; it ends on the first of these, and also
\* when receive_message returns None (nothing within the timeout, or a frame
\* that is not JSON) or raises, possibly with batches still to come.  Ended by
\* an error frame, total_rows is the sum of the batches taken before it.  Once
\* the loop is over, frames that arrive add no rows.
C20_StreamEnds ==
    /\ [](pc = "e8_recv" =>
            \A k \in 1..Len(received) :
                ~FinalBatch(received[k]) /\ received[k].type # "error")
    /\ [](pc = "e8_exit" =>
            /\ lastOutcome \in {"data", "error", "None", "ConnectionClosed", "KeyError"}
            /\ lastOutcome = "data" => FinalBatch(received[Len(received)])
            /\ lastOutcome = "error" =>
                  /\ received[Len(received)].type = "error"
                  /\ total_rows = SumRows(SubSeq(received, 1, Len(received) - 1)))
    /\ [][StreamEnded =>
            /\ total_rows' = total_rows
            /\ received' = received
            /\ StreamEnded']_vars

C20_Witness ==
    /\ pc = "e8_exit" /\ lastOutcome = "error"
    /\ Len(received) = 2
    /\ received[1].type = "data" /\ received[1].has_more
    /\ received[2].type = "error"
    /\ total_rows = received[1].rows


\* The rows of the data frames of a sequence that carry the id q, summed.
RECURSIVE SumRowsOf(_, _)
SumRowsOf(fs, q) ==
    IF fs = <<>> THEN 0
    ELSE (IF Head(fs).type = "data" /\ Head(fs).id = q THEN Head(fs).rows ELSE 0)
         + SumRowsOf(Tail(fs), q)

MalformedTaken ==
    /\ pc \in {"query_recv", "auth_recv", "ping_recv"}
    /\ RecvOutcome = "malformed"
    /\ inbox' = Tail(inbox)

\* C23: a frame that is not JSON is dropped.  Nothing is raised and the
\* connection is as before; the call that was waiting goes on waiting for the
\* next frame and is not completed by the malformed one.
C23_MalformedFrameDropped ==
    [][MalformedTaken =>
          /\ lastOutcome' \notin {"NotConnected", "ConnectionClosed"}
          /\ websocket' = websocket /\ opened' = opened /\ linkUp' = linkUp
          /\ pc' = pc
          /\ results' = results]_vars

\* An auth envelope goes out on the connection.
AuthSent == pc = "auth_send" /\ pc' = "auth_recv"

\* The auth requests the server holds unanswered on the current connection.
AuthPending == {req \in srvPending : req.type = "auth"}

\* C24 as stated: with a credential, every transport that connect() opens is
\* followed by the handshake, and an auth envelope is sent only there, as part
\* of the connect() that opened the connection.
C24_OneAuthPerConnect ==
    [][/\ (nextHandle' # nextHandle /\ auth_token # "") => pc' = "auth_send"
       /\ AuthSent => inConnect]_vars

\* C24 as amended: with a credential connect() goes from opening the
\* transport to the handshake, sends one auth envelope on the new connection
\* and none while it awaits the reply; authenticate() called by the caller
\* sends one more.  At no time do two handshakes await their reply, though an
\* earlier one that timed out may still be unanswered.
C24_OneAuthPerHandshake ==
    /\ [][(nextHandle' # nextHandle /\ auth_token # "") =>
              pc' = "auth_send" /\ inConnect' /\ nextId' = nextId]_vars
    /\ [][AuthSent => /\ nextId' = nextId + 1
                      /\ srvPending' = srvPending \cup {[id |-> nextId', type |-> "auth"]}
                      /\ Waiting(nextId)']_vars
    /\ [][pc = "auth_recv" => nextId' = nextId]_vars
    /\ []((inConnect /\ pc = "auth_recv") =>
              AuthPending \subseteq {[id |-> curReq, type |-> "auth"]})
    /\ [](Cardinality({i \in Ids : results[i].kind = "auth" /\ Waiting(i)}) <= 1)

\* A second handshake, started by authenticate(), awaits its reply while the
\* one of connect(), which timed out, is still unanswered.
C24_Witness ==
    /\ pc = "auth_recv" /\ ~inConnect
    /\ Cardinality(AuthPending) = 2
    /\ nextHandle = 1

\* Id i is the id of the latest auth envelope sent.
LatestAuth(i) ==
    /\ results[i].kind = "auth"
    /\ \A j \in Ids : (j > i) => results[j].kind # "auth"

\* C26: authenticated is true only if the most recent handshake was handed
\* auth_success; one that ended in a timeout, in a frame that is not JSON or
\* in a frame of another type leaves authenticated false, whatever an earlier
\* handshake had set.
C26_FlagFollowsLatestHandshake ==
    \A i \in Ids :
        (LatestAuth(i) /\ Completed(i) /\ results[i].reply.type # "auth_success")
            => ~authenticated

\* connect() raises out of the handshake it started on the transport it had
\* opened.
ConnectRaisesAfterOpen == inConnect /\ ~inConnect' /\ lastOutcome' # "ok"

\* C27: when connect() raises after it opened the transport, websocket is not
\* left set to a connection that is still open, and reconnect_count is as it
\* was.
C27_FailedConnectLeavesNoHandle ==
    [][ConnectRaisesAfterOpen =>
          /\ ~(websocket' # 0 /\ websocket' \in opened' /\ linkUp')
          /\ reconnect_count' = reconnect_count]_vars

\* The caller makes a call other than connect() and close() on a session
\* without a connection handle.
CallWithoutHandle ==
    /\ websocket = 0
    /\ calls' = calls + 1
    /\ nextHandle' = nextHandle
    /\ lastOutcome' \notin {"ConnectFailed", "closed"}

\* C28: send_message, receive_message, execute_query and ping called on a
\* session without a connection handle raise "Not connected to server";
\* nothing is sent, nothing is read, and websocket, authenticated and
\* reconnect_count are as before.
C28_NotConnectedRaises ==
    [][CallWithoutHandle =>
          /\ lastOutcome' = "NotConnected"
          /\ pc' = "idle"
          /\ UNCHANGED <<websocket, authenticated, reconnect_count>>
          /\ UNCHANGED <<srvPending, inbox, opened, linkUp>>]_vars

C28_Witness ==
    /\ lastOutcome = "NotConnected"
    /\ websocket = 0 /\ nextHandle = 1 /\ opened = {}
    /\ ~authenticated /\ reconnect_count = 0
    /\ srvPending = {} /\ nextId = 1

\* C29: whatever calls the caller makes and whatever the transport and the
\* server do, authenticated is true only while the session holds a
\* connection handle that it has not closed.
C29_AuthenticatedImpliesHandle ==
    authenticated => (websocket # 0 /\ websocket \in opened)

\* Authenticated again on a second connection, after a close().
C29_Witness ==
    /\ authenticated
    /\ websocket = 2 /\ opened = {2}
    /\ pc = "idle" /\ lastOutcome = "ok"

\* C30: the retry loop terminates whatever the transport does.  It makes at
\* most max_retries connect attempts and none after a success; it waits only
\* between attempts (a wait is always followed by another attempt, so there
\* are fewer waits than attempts and fewer than max_retries); and close() is
\* called once, after the loop, and ends the program.
C30_RetryLoopTerminates ==
    /\ <>(pc = "e7_done")
    /\ [](attempts <= max_retries)
    /\ [](Len(delays) <= attempts /\ (max_retries > 0 => Len(delays) < max_retries))
    /\ [](pc = "e7_sleep" => (Len(delays) = attempts /\ attempts < max_retries))
    /\ [](pc = "e7_loop" => Len(delays) = attempts)
    /\ [](pc \in {"e7_work", "e7_close", "e7_done"} =>
              Len(delays) = (IF attempts = 0 THEN 0 ELSE attempts - 1))
    /\ [](nextHandle <= 1)
    /\ [](nextHandle = 1 => pc \in {"e7_work", "e7_close", "e7_done"})
    /\ [](pc = "e7_done" <=> lastOutcome = "closed")
    /\ [][pc = "e7_close" => pc' \in {"e7_close", "e7_done"}]_vars
    /\ [][pc = "e7_done" => UNCHANGED vars]_vars

\* Ended by a success at the last attempt allowed, after a wait before each
\* retry.
C30_Witness ==
    /\ pc = "e7_done"
    /\ max_retries = Example7MaxRetries
    /\ attempts = max_retries
    /\ retry_count = max_retries - 1
    /\ Len(delays) = max_retries - 1
    /\ nextHandle = 1 /\ websocket = 0 /\ opened = {}

=============================================================================
